---- MODULE Spec2Model ----
(***************************************************************************)
(* Model of composio's browsertool action base                             *)
(* (python/composio/tools/local/browsertool/actions/base_action.py):       *)
(* request construction (pydantic field validation) and                    *)
(* BaseBrowserAction.execute, one step per call the wrapper makes on a     *)
(* browser manager.                                                        *)
(*                                                                         *)
(* Python's Optional[T] is a sequence of length 0 or 1: None is <<>> and a *)
(* present value v is <<v>>.  A dict is a function over its keys.          *)
(***************************************************************************)
EXTENDS Integers, Sequences, FiniteSets, TLC

VARIABLES
    workspace,          \* TRUE iff metadata carries a (truthy) "workspace"
    browser_managers,   \* keys of workspace.browser_managers, in dict (insertion) order
    page,               \* page each browser manager currently shows
    request,            \* None, or the constructed request object
    pc,                 \* position of the call
    browser_manager,    \* local of execute: key of the manager acted on
    before_screenshot,  \* local of execute
    after_screenshot,   \* local of execute
    resp,               \* local of execute: the object the domain operation returned
    action_resp,        \* that object as the domain operation returned it
    result,             \* None, or the response execute returned
    exc,                \* None, or the exception that left the call
    caught,             \* None, or the exception the except clause caught
    raw,                \* what the manager returned to the three telemetry queries
    log                 \* calls made on browser managers, in order

vars == <<workspace, browser_managers, page, request, pc, browser_manager,
          before_screenshot, after_screenshot, resp, action_resp, result,
          exc, caught, raw, log>>

-----------------------------------------------------------------------------
(* Bounds and input sets *)

MaxSessions == 2

None == <<>>
Some(v) == <<v>>

\* keys a registry may hold
ManagerIds == {"bm" \o ToString(i) : i \in 1..MaxSessions}

\* a well-formed identifier that no registry holds
UnknownId == "bm0"

\* random.choices(string.ascii_lowercase, k=6): two representative draws
RandomStrings == {"aaaaaa", "qwerty"}

\* the two exception families of Python: `except Exception` catches the
\* first and lets the second (KeyboardInterrupt, SystemExit, ...) through
ExceptionKinds == {"Exception", "BaseException"}

Dict(a, b, va, vb) == (a :> va) @@ (b :> vb)

\* pages a browser manager can show: url and what the manager answers to
\* get_page_viewport and to the two execute_script queries
Pages ==
    { [url |-> "about:blank",
       viewport |-> None,
       scroll |-> Some(Dict("x", "y", Some(0), Some(0))),
       dims |-> Some(Dict("width", "height", Some(0), Some(0)))],
      [url |-> "https://example.com",
       viewport |-> Some(Dict("width", "height", Some(1280), Some(800))),
       scroll |-> Some(Dict("x", "y", Some(0), Some(120))),
       dims |-> Some(Dict("width", "height", Some(1280), Some(2400)))],
      [url |-> "https://example.com/rtl",
       viewport |-> Some(Dict("width", "height", Some(1280), Some(800))),
       scroll |-> Some(Dict("x", "y", Some(-40), Some(120))),
       dims |-> Some(Dict("width", "height", Some(1320), None))],
      [url |-> "https://example.com/closed",
       viewport |-> Some(<<>>),
       scroll |-> None,
       dims |-> None] }

\* sequences of distinct keys, at most MaxSessions long
RECURSIVE Registries(_)
Registries(n) ==
    IF n = 0 THEN {<<>>}
    ELSE LET shorter == Registries(n - 1)
         IN  shorter \cup
             { Append(r, k) : r \in {s \in shorter : Len(s) = n - 1},
                              k \in ManagerIds }

Range(s) == {s[i] : i \in 1..Len(s)}

IsInjective(s) == \A i, j \in 1..Len(s) : s[i] = s[j] => i = j

-----------------------------------------------------------------------------
(* Requests and responses *)

\* class SelectorType(str, Enum)
SelectorType == {"css", "xpath", "id", "name", "tag", "class"}

\* selector_type values a caller may pass: members of the enumeration and
\* strings outside it
SelectorTypeInputs == SelectorType \cup {"bogus"}

\* keyword arguments a caller may construct a selector request from; an
\* omitted argument is None
RawRequests ==
    [browser_manager_id : {None} \cup {Some(k) : k \in ManagerIds \cup {UnknownId}},
     capture_screenshot : {None, Some(TRUE), Some(FALSE)},
     selector_type : {None} \cup {Some(t) : t \in SelectorTypeInputs},
     selector : {None, Some("#submit")},
     timeout : {None}]

\* pydantic: a field with a default takes it when the argument is omitted
WithDefault(arg, default) == IF arg = None THEN default ELSE arg[1]

\* pydantic validation of BaseBrowserSelectorRequest: `selector` is the only
\* required field (Field(...)); selector_type is declared `str`, so every
\* string is accepted
IsValidRequest(kwargs) == kwargs.selector # None

\* the request object built from valid keyword arguments
BaseBrowserSelectorRequest(kwargs) ==
    [browser_manager_id |-> kwargs.browser_manager_id,
     capture_screenshot |-> WithDefault(kwargs.capture_screenshot, FALSE),
     selector_type |-> WithDefault(kwargs.selector_type, "css"),
     selector |-> kwargs.selector[1],
     timeout |-> kwargs.timeout]

\* BaseBrowserResponse with every field at its default
BaseBrowserResponse ==
    [error |-> None, current_url |-> None, viewport |-> None,
     scroll_position |-> None, page_dimensions |-> None,
     before_screenshot |-> None, after_screenshot |-> None]

\* responses a concrete action's execute_on_browser_manager may hand back:
\* it may report a failure of its own in `error`, and may have filled the
\* screenshot fields itself
StalePath == "/home/user/.browser_media/stale.png"

DomainResponses ==
    { [BaseBrowserResponse EXCEPT !.error = e,
                                  !.before_screenshot = s,
                                  !.after_screenshot = s] :
        e \in {None, Some("element not found")},
        s \in {None, Some(StalePath)} }

\* Python truthiness of an Optional[dict]
Truthy(d) == d # None /\ DOMAIN d[1] # {}

\* `v or None` for an Optional[int] v
OrNone(v) == IF v = None \/ v = Some(0) THEN None ELSE v

\* {k: v or None for k, v in d.items()} if d else None
Normalise(d) ==
    IF Truthy(d) THEN Some([k \in DOMAIN d[1] |-> OrNone(d[1][k])]) ELSE None

\* BaseBrowserAction._take_screenshot: the path it returns
MediaDir == "/home/user/.browser_media"

\* variant: the file name leaves the prefix out
ScreenshotPathNoPrefix(prefix, random_string) ==
    MediaDir \o "/screenshot_" \o random_string \o ".png"

ScreenshotPath(prefix, random_string) ==
    MediaDir \o "/" \o prefix \o "_screenshot_" \o random_string \o ".png"

\* variant: an identifier that is not a key falls back to the last value
SelectManagerUnknownLast(managers, id) ==
    IF id # None /\ id[1] \in Range(managers) THEN id[1]
    ELSE IF id = None THEN managers[1]
    ELSE managers[Len(managers)]

\* browser_managers.get(id), then the fallback to the first value of the dict;
\* the caller has established that the dict is not empty or holds the id
SelectManager(managers, id) ==
    IF id # None /\ id[1] \in Range(managers) THEN id[1] ELSE managers[1]

\* variant: the except clause keeps the screenshot already taken
ErrorResponseKeepsScreenshot(e, url) ==
    [error |-> Some("An error occurred while executing the browser action: " \o e.msg),
     current_url |-> Some(url),
     viewport |-> None,
     scroll_position |-> None,
     page_dimensions |-> None,
     before_screenshot |-> before_screenshot,
     after_screenshot |-> None]

\* the response built by the except clause
ErrorResponse(e, url) ==
    [error |-> Some("An error occurred while executing the browser action: " \o e.msg),
     current_url |-> Some(url),
     viewport |-> None,
     scroll_position |-> None,
     page_dimensions |-> None,
     before_screenshot |-> None,
     after_screenshot |-> None]

\* a call made on a browser manager: which one, which method, from the try
\* block or from the except clause, and whether it returned or raised
Call(manager, op, phase, outcome) ==
    [manager |-> manager, op |-> op, phase |-> phase, outcome |-> outcome]

\* an exception: its class, its text, and the statement that raised it
Raised(type, msg, at) == [type |-> type, msg |-> msg, at |-> at]

\* nothing read from the manager yet
NoReads == [viewport |-> None, scroll_position |-> None, page_dimensions |-> None,
            done |-> {}]

-----------------------------------------------------------------------------
(* State *)

Init ==
    /\ workspace \in BOOLEAN
    /\ browser_managers \in {r \in Registries(MaxSessions) : IsInjective(r)}
    /\ page \in [Range(browser_managers) -> Pages]
    /\ request = None
    /\ pc = "start"
    /\ browser_manager = None
    /\ before_screenshot = None
    /\ after_screenshot = None
    /\ resp = None
    /\ action_resp = None
    /\ result = None
    /\ exc = None
    /\ caught = None
    /\ raw = NoReads
    /\ log = <<>>

\* the manager execute selected
bm == browser_manager[1]

\* an exception of family `kind` leaves a statement of the try block: the
\* except clause takes an Exception, anything else leaves execute
Throw(kind, msg, at) ==
    IF kind = "Exception"
    THEN /\ pc' = "except"
         /\ caught' = Some(Raised(kind, msg, at))
         /\ exc' = exc
    ELSE /\ pc' = "raised"
         /\ exc' = Some(Raised(kind, msg, at))
         /\ caught' = caught

-----------------------------------------------------------------------------
(* Request construction *)

\* BaseBrowserSelectorRequest(**kwargs)
Construct ==
    /\ pc = "start"
    /\ \E kwargs \in RawRequests :
         IF IsValidRequest(kwargs)
         THEN /\ request' = Some(BaseBrowserSelectorRequest(kwargs))
              /\ pc' = "execute"
              /\ exc' = exc
         ELSE /\ request' = request
              /\ pc' = "invalid"
              /\ exc' = Some(Raised("ValidationError", "selector: field required",
                                    "construct"))
    /\ UNCHANGED <<action_resp, workspace, browser_managers, page, browser_manager,
                   before_screenshot, after_screenshot, resp, result, caught,
                   raw, log>>

-----------------------------------------------------------------------------
(* BaseBrowserAction.execute *)

\* variant: the workspace check is left out
WorkspaceNeverMissing == FALSE

\* `not workspace`, for workspace = metadata.get("workspace")
WorkspaceMissing == ~workspace

\* `not browser_manager`, for browser_manager = browser_managers.get(id)
ManagerMissing(managers, id) == id = None \/ id[1] \notin Range(managers)

\* session resolution, before the try block
Resolve ==
    /\ pc = "execute"
    /\ IF WorkspaceMissing
       THEN /\ pc' = "raised"
            /\ exc' = Some(Raised("ComposioSDKError",
                                  "Workspace not found in authorisation data",
                                  "resolve"))
            /\ browser_manager' = browser_manager
       ELSE IF /\ ManagerMissing(browser_managers, request[1].browser_manager_id)
               /\ browser_managers = <<>>
       THEN /\ pc' = "raised"
            /\ exc' = Some(Raised("ComposioSDKError",
                                  "No browser managers available", "resolve"))
            /\ browser_manager' = browser_manager
       ELSE /\ pc' = "before"
            /\ exc' = exc
            /\ browser_manager' =
                 Some(SelectManager(browser_managers, request[1].browser_manager_id))
    /\ UNCHANGED <<action_resp, workspace, browser_managers, page, request,
                   before_screenshot, after_screenshot, resp, result, caught,
                   raw, log>>

\* the two ways _take_screenshot raises when called at position `at`
ScreenshotFails(at) ==
    \/ \* mkdir of the media directory fails, nothing reaches the manager
       /\ Throw("Exception", "mkdir failed", at)
       /\ log' = log
       /\ UNCHANGED <<before_screenshot, after_screenshot, resp, result>>
    \/ \* browser_manager.take_screenshot raises
       /\ \E kind \in ExceptionKinds : Throw(kind, "screenshot failed", at)
       /\ log' = Append(log, Call(bm, "take_screenshot", "try", "raised"))
       /\ UNCHANGED <<before_screenshot, after_screenshot, resp, result>>

\* lines 106-110
BeforeScreenshot ==
    /\ pc = "before"
    /\ IF request[1].capture_screenshot
       THEN \/ ScreenshotFails("before")
            \/ /\ \E random_string \in RandomStrings :
                    before_screenshot' = Some(ScreenshotPath("before", random_string))
               /\ log' = Append(log, Call(bm, "take_screenshot", "try", "ok"))
               /\ pc' = "dispatch"
               /\ UNCHANGED <<after_screenshot, resp, result, exc, caught>>
       ELSE /\ pc' = "dispatch"
            /\ UNCHANGED <<before_screenshot, after_screenshot, resp, result,
                           exc, caught, log>>
    /\ UNCHANGED <<action_resp, workspace, browser_managers, page, request, browser_manager, raw>>

\* lines 112-114: the concrete action works on the selected manager, which
\* may leave it on another page, and returns a response or raises
Dispatch ==
    /\ pc = "dispatch"
    /\ \E p \in Pages : page' = [page EXCEPT ![bm] = p]
    /\ \/ /\ \E r \in DomainResponses : resp' = Some(r)
          /\ action_resp' = resp'
          /\ log' = Append(log, Call(bm, "execute_on_browser_manager", "try", "ok"))
          /\ pc' = "get_current_url"
          /\ UNCHANGED <<exc, caught>>
       \/ /\ \E kind \in ExceptionKinds : Throw(kind, "action failed", "dispatch")
          /\ log' = Append(log, Call(bm, "execute_on_browser_manager", "try", "raised"))
          /\ UNCHANGED <<resp, action_resp>>
    /\ UNCHANGED <<workspace, browser_managers, request, browser_manager,
                   before_screenshot, after_screenshot, result, raw>>

\* a query `op` on the selected manager raises at position `at`
QueryFails(op, at) ==
    /\ \E kind \in ExceptionKinds : Throw(kind, op \o " failed", at)
    /\ log' = Append(log, Call(bm, op, "try", "raised"))
    /\ UNCHANGED <<resp, raw>>

\* line 115
GetCurrentUrl ==
    /\ pc = "get_current_url"
    /\ \/ QueryFails("get_current_url", "get_current_url")
       \/ /\ resp' = Some([resp[1] EXCEPT !.current_url = Some(page[bm].url)])
          /\ log' = Append(log, Call(bm, "get_current_url", "try", "ok"))
          /\ pc' = "get_viewport"
          /\ UNCHANGED <<exc, caught, raw>>
    /\ UNCHANGED <<action_resp, workspace, browser_managers, page, request, browser_manager,
                   before_screenshot, after_screenshot, result>>

\* lines 118-121
GetViewport ==
    /\ pc = "get_viewport"
    /\ \/ QueryFails("get_page_viewport", "get_viewport")
       \/ /\ raw' = [raw EXCEPT !.viewport = page[bm].viewport,
                                !.done = @ \cup {"viewport"}]
          /\ resp' = Some([resp[1] EXCEPT !.viewport = Normalise(page[bm].viewport)])
          /\ log' = Append(log, Call(bm, "get_page_viewport", "try", "ok"))
          /\ pc' = "get_scroll"
          /\ UNCHANGED <<exc, caught>>
    /\ UNCHANGED <<action_resp, workspace, browser_managers, page, request, browser_manager,
                   before_screenshot, after_screenshot, result>>

\* lines 124-136
GetScrollPosition ==
    /\ pc = "get_scroll"
    /\ \/ QueryFails("execute_script", "get_scroll")
       \/ /\ raw' = [raw EXCEPT !.scroll_position = page[bm].scroll,
                                !.done = @ \cup {"scroll_position"}]
          /\ resp' = Some([resp[1] EXCEPT
                             !.scroll_position = Normalise(page[bm].scroll)])
          /\ log' = Append(log, Call(bm, "execute_script", "try", "ok"))
          /\ pc' = "get_dimensions"
          /\ UNCHANGED <<exc, caught>>
    /\ UNCHANGED <<action_resp, workspace, browser_managers, page, request, browser_manager,
                   before_screenshot, after_screenshot, result>>

\* lines 139-165
GetPageDimensions ==
    /\ pc = "get_dimensions"
    /\ \/ QueryFails("execute_script", "get_dimensions")
       \/ /\ raw' = [raw EXCEPT !.page_dimensions = page[bm].dims,
                                !.done = @ \cup {"page_dimensions"}]
          /\ resp' = Some([resp[1] EXCEPT
                             !.page_dimensions = Normalise(page[bm].dims)])
          /\ log' = Append(log, Call(bm, "execute_script", "try", "ok"))
          /\ pc' = "after"
          /\ UNCHANGED <<exc, caught>>
    /\ UNCHANGED <<action_resp, workspace, browser_managers, page, request, browser_manager,
                   before_screenshot, after_screenshot, result>>

\* variant: a local that is None leaves the field of the response alone
WithScreenshotsIfTaken(r, before, after) ==
    [r EXCEPT !.before_screenshot = IF before = None THEN @ ELSE before,
              !.after_screenshot = IF after = None THEN @ ELSE after]

\* lines 170-171: the two locals are stored into the response
WithScreenshots(r, before, after) ==
    [r EXCEPT !.before_screenshot = before, !.after_screenshot = after]

\* lines 167-173
AfterScreenshot ==
    /\ pc = "after"
    /\ IF request[1].capture_screenshot
       THEN \/ ScreenshotFails("after")
            \/ /\ \E random_string \in RandomStrings :
                    LET path == Some(ScreenshotPath("after", random_string))
                    IN  /\ after_screenshot' = path
                        /\ resp' = Some(WithScreenshots(resp[1], before_screenshot, path))
               /\ result' = resp'
               /\ log' = Append(log, Call(bm, "take_screenshot", "try", "ok"))
               /\ pc' = "returned"
               /\ UNCHANGED <<before_screenshot, exc, caught>>
       ELSE /\ resp' = Some(WithScreenshots(resp[1], before_screenshot, after_screenshot))
            /\ result' = resp'
            /\ pc' = "returned"
            /\ UNCHANGED <<before_screenshot, after_screenshot, exc, caught, log>>
    /\ UNCHANGED <<action_resp, workspace, browser_managers, page, request, browser_manager, raw>>

\* variant: the except clause guards its own get_current_url and answers
\* without a URL when it raises
ExceptWithFallback ==
    /\ pc = "except"
    /\ \/ /\ result' = Some(ErrorResponse(caught[1], page[bm].url))
          /\ log' = Append(log, Call(bm, "get_current_url", "except", "ok"))
       \/ /\ result' = Some([ErrorResponse(caught[1], "") EXCEPT !.current_url = None])
          /\ log' = Append(log, Call(bm, "get_current_url", "except", "raised"))
    /\ pc' = "returned"
    /\ UNCHANGED <<action_resp, workspace, browser_managers, page, request,
                   browser_manager, before_screenshot, after_screenshot, resp,
                   exc, caught, raw>>

\* lines 174-187: the except clause; its own get_current_url is not guarded
Except ==
    /\ pc = "except"
    /\ \/ /\ result' = Some(ErrorResponse(caught[1], page[bm].url))
          /\ log' = Append(log, Call(bm, "get_current_url", "except", "ok"))
          /\ pc' = "returned"
          /\ exc' = exc
       \/ /\ \E kind \in ExceptionKinds :
               exc' = Some(Raised(kind, "get_current_url failed", "except"))
          /\ log' = Append(log, Call(bm, "get_current_url", "except", "raised"))
          /\ pc' = "raised"
          /\ result' = result
    /\ UNCHANGED <<action_resp, workspace, browser_managers, page, request, browser_manager,
                   before_screenshot, after_screenshot, resp, caught, raw>>

Next ==
    \/ Construct
    \/ Resolve
    \/ BeforeScreenshot
    \/ Dispatch
    \/ GetCurrentUrl
    \/ GetViewport
    \/ GetScrollPosition
    \/ GetPageDimensions
    \/ AfterScreenshot
    \/ Except

Spec == Init /\ [][Next]_vars

-----------------------------------------------------------------------------
(* Type invariant *)

Terminal == pc \in {"invalid", "raised", "returned"}

TypeOK ==
    /\ pc \in {"start", "execute", "before", "dispatch", "get_current_url",
               "get_viewport", "get_scroll", "get_dimensions", "after", "except",
               "invalid", "raised", "returned"}
    /\ IsInjective(browser_managers)
    /\ Len(browser_managers) <= MaxSessions
    /\ DOMAIN page = Range(browser_managers)
    /\ Len(request) <= 1 /\ Len(result) <= 1 /\ Len(exc) <= 1
    /\ (pc = "returned") = (result # None)
    /\ (pc \in {"invalid", "raised"}) = (exc # None)

-----------------------------------------------------------------------------
(* Vocabulary of the properties *)

\* execute has finished, one way or the other
Finished == pc \in {"raised", "returned"}

\* session resolution is over
Resolved == pc \notin {"start", "invalid", "execute"}

\* a statement of the try block raised
GuardedFailure ==
    \/ caught # None
    \/ exc # None /\ exc[1].at \notin {"construct", "resolve", "except"}

\* execute returned from the end of the try block
Success == pc = "returned" /\ caught = None

\* every call went to manager k
OnlyOn(k) == \A i \in 1..Len(log) : log[i].manager = k

TelemetryUnset(r) ==
    r.viewport = None /\ r.scroll_position = None /\ r.page_dimensions = None

ScreenshotsUnset(r) == r.before_screenshot = None /\ r.after_screenshot = None

EndsWith(str, suffix) ==
    /\ Len(str) >= Len(suffix)
    /\ SubSeq(str, Len(str) - Len(suffix) + 1, Len(str)) = suffix

\* component k of an Optional[dict]; None when the dict or the key is missing
Component(d, k) == IF d = None \/ k \notin DOMAIN d[1] THEN None ELSE d[1][k]

TelemetryKeys ==
    [viewport |-> {"width", "height"}, scroll_position |-> {"x", "y"},
     page_dimensions |-> {"width", "height"}]

ExceptCalls == {i \in 1..Len(log) : log[i].phase = "except"}

-----------------------------------------------------------------------------
(* C1 *)

\* the shape of a converted failure
FailureShape(r) ==
    /\ r.error # None
    /\ r.current_url = Some(page[bm].url)
    /\ TelemetryUnset(r)
    /\ ScreenshotsUnset(r)

\* C1 as stated: whenever a statement of the try block raised, execute
\* returns, and returns a response with error set, current_url re-queried
\* from the selected manager and every telemetry and screenshot field unset.
C1_AlwaysConverted ==
    (Finished /\ GuardedFailure) =>
        /\ pc = "returned"
        /\ result # None
        /\ FailureShape(result[1])

\* C1 amended: when a statement of the try block raised an exception that
\* `except Exception` catches and the URL query of the except clause did not
\* raise, execute returns a response with error set, current_url re-queried
\* from the selected manager and every telemetry and screenshot field unset,
\* whatever had completed before the failure.
C1_ConvertedWhenUrlQueryable ==
    (Finished /\ caught # None
        /\ \A i \in ExceptCalls : log[i].outcome = "ok") =>
        /\ pc = "returned"
        /\ result # None
        /\ FailureShape(result[1])

\* the after-screenshot fails with the before-screenshot taken and all
\* telemetry read, and the failure is converted
C1_Witness ==
    /\ pc = "returned"
    /\ caught # None
    /\ caught[1].at = "after"
    /\ before_screenshot # None
    /\ raw.done = {"viewport", "scroll_position", "page_dimensions"}
    /\ resp[1].viewport # None

-----------------------------------------------------------------------------
(* C2 *)

\* C2 as stated: a returned response either has error populated and the
\* telemetry fields null, or has error unset and current_url, viewport,
\* scroll_position and page_dimensions equal to what the manager returned
\* after the domain operation.
C2_TwoShapes ==
    pc = "returned" =>
        LET r == result[1]
        IN  \/ r.error # None /\ TelemetryUnset(r)
            \/ /\ r.error = None
               /\ r.current_url = Some(page[bm].url)
               /\ r.viewport = raw.viewport
               /\ r.scroll_position = raw.scroll_position
               /\ r.page_dimensions = raw.page_dimensions

-----------------------------------------------------------------------------
(* C3 *)

\* C3 as stated: without a session identifier and with a non-empty registry,
\* the manager acted on is the last inserted one.
C3_MostRecentSelected ==
    (Resolved /\ workspace /\ browser_managers # <<>>
        /\ request[1].browser_manager_id = None) =>
        /\ browser_manager = Some(browser_managers[Len(browser_managers)])
        /\ OnlyOn(browser_managers[Len(browser_managers)])

-----------------------------------------------------------------------------
(* C4 *)

\* C4: with an identifier that is a key, that manager and no other is acted
\* on; with an identifier that is not a key, an empty registry makes execute
\* raise "No browser managers available" without a response, and a non-empty
\* one makes it act on the manager the call without identifier selects.
C4_IdentifierResolution ==
    (Resolved /\ workspace /\ request[1].browser_manager_id # None) =>
        LET id == request[1].browser_manager_id[1]
        IN  IF id \in Range(browser_managers)
            THEN browser_manager = Some(id) /\ OnlyOn(id)
            ELSE IF browser_managers = <<>>
            THEN /\ pc = "raised"
                 /\ exc = Some(Raised("ComposioSDKError",
                                      "No browser managers available", "resolve"))
                 /\ result = None
                 /\ caught = None
                 /\ log = <<>>
            ELSE /\ browser_manager = Some(SelectManager(browser_managers, None))
                 /\ OnlyOn(SelectManager(browser_managers, None))
                 /\ (exc # None => exc[1].at # "resolve")

\* a call with an unknown identifier on a registry of several managers ran to
\* its end on the default manager
C4_Witness ==
    /\ pc = "returned"
    /\ request[1].browser_manager_id = Some(UnknownId)
    /\ Len(browser_managers) >= 2
    /\ Len(log) >= 5

-----------------------------------------------------------------------------
(* C5 *)

\* C5: without a workspace in the metadata, execute raises "Workspace not
\* found in authorisation data", returns no response, converts nothing and
\* calls nothing on any manager.
C5_NoWorkspaceIsFatal ==
    (Resolved /\ ~workspace) =>
        /\ pc = "raised"
        /\ exc = Some(Raised("ComposioSDKError",
                             "Workspace not found in authorisation data", "resolve"))
        /\ result = None
        /\ caught = None
        /\ browser_manager = None
        /\ log = <<>>

\* the call was made without a workspace while managers exist
C5_Witness ==
    /\ pc = "raised"
    /\ ~workspace
    /\ request # None
    /\ browser_managers # <<>>

-----------------------------------------------------------------------------
(* C6 *)

\* C6 as stated: on success every telemetry component of the response equals
\* what the manager returned for it, and is null only when the manager
\* returned null.
C6_ComponentsPreserved ==
    Success =>
        \A f \in DOMAIN TelemetryKeys : \A k \in TelemetryKeys[f] :
            Component(result[1][f], k) = Component(raw[f], k)

-----------------------------------------------------------------------------
(* C7 *)

OpsOfLog == [i \in 1..Len(log) |-> log[i].op]

\* C7: a successful call with capture_screenshot has both screenshot fields
\* set to two different paths ending in .png, and made exactly these calls on
\* the selected manager, in this order: screenshot, domain operation, URL,
\* viewport, scroll script, dimensions script, screenshot.
C7_ScreenshotsAndOrder ==
    (Success /\ request[1].capture_screenshot) =>
        LET r == result[1]
        IN  /\ r.before_screenshot # None
            /\ r.after_screenshot # None
            /\ r.before_screenshot # r.after_screenshot
            /\ EndsWith(r.before_screenshot[1], ".png")
            /\ EndsWith(r.after_screenshot[1], ".png")
            /\ OpsOfLog = <<"take_screenshot", "execute_on_browser_manager",
                            "get_current_url", "get_page_viewport",
                            "execute_script", "execute_script", "take_screenshot">>
            /\ OnlyOn(bm)
            /\ \A i \in 1..Len(log) : log[i].outcome = "ok" /\ log[i].phase = "try"

\* a successful capturing call whose two random strings coincided
C7_Witness ==
    /\ Success
    /\ request[1].capture_screenshot
    /\ result[1].before_screenshot = Some(ScreenshotPath("before", "qwerty"))
    /\ result[1].after_screenshot = Some(ScreenshotPath("after", "qwerty"))

-----------------------------------------------------------------------------
(* C8 *)

\* C8: with capture_screenshot false the returned response has both
\* screenshot fields unset, on success and on failure, whatever the domain
\* operation had put there.
C8_NoCaptureNoScreenshots ==
    (pc = "returned" /\ ~request[1].capture_screenshot) =>
        ScreenshotsUnset(result[1])

\* a successful call without capture whose domain operation had filled the
\* screenshot fields itself
C8_Witness ==
    /\ Success
    /\ ~request[1].capture_screenshot
    /\ action_resp # None
    /\ action_resp[1].before_screenshot # None
    /\ action_resp[1].after_screenshot # None

-----------------------------------------------------------------------------
(* C9 *)

\* C9: when the URL query of the except clause raises, execute returns no
\* response: that exception leaves execute, and the query was made once.
C9_SecondFailurePropagates ==
    (\E i \in ExceptCalls : log[i].outcome = "raised") =>
        /\ pc = "raised"
        /\ result = None
        /\ caught # None
        /\ exc # None
        /\ exc[1].at = "except"
        /\ exc[1] # caught[1]
        /\ Cardinality(ExceptCalls) = 1

\* the domain operation raised, and so did the URL query of the except clause
C9_Witness ==
    /\ pc = "raised"
    /\ caught # None
    /\ caught[1].at = "dispatch"
    /\ exc # None
    /\ exc[1].at = "except"

-----------------------------------------------------------------------------
(* C10 *)

\* C10 as stated: no request is constructed with a selector_type outside the
\* enumeration, and the domain operation is never called for one.
C10_SelectorTypeValidated ==
    request # None =>
        /\ request[1].selector_type \in SelectorType
        /\ \A i \in 1..Len(log) : log[i].op # "execute_on_browser_manager"
                                  \/ request[1].selector_type \in SelectorType

====
